---- MODULE Spec2Model ----
(***************************************************************************)
(* MorphFun: the audio morphing engine (AudioPlayer), the recorder, the    *)
(* thread registry (ThreadManager) and the lifecycle Controller, with the  *)
(* GUI buttons, the webcam keypoint producer and the pose classifier as    *)
(* the threads that feed them.                                             *)
(***************************************************************************)
EXTENDS Integers, Sequences, FiniteSets, TLC

\* ------------------------------------------------------------------ bounds
MaxModels == 1        \* small configurations: 1..MaxModels timbre models,
MaxActions == 3       \*   MaxActions classifier actions,
MaxClicks == 4        \*   MaxClicks GUI button clicks in one run
WideModels == 4       \* wide configuration: WideModels timbre models,
WideActions == 5      \*   WideActions classifier actions,
WideClicks == 3       \*   WideClicks GUI button clicks in one run
OpenCmds == 2         \* commands put on gui_commands by an arbitrary producer
OpenActions == 1      \*   and the classifier actions of that configuration
WireClicks == 3       \* GUI button clicks in a run with an arbitrary producer
WireNeg == 2          \*   on morphing_data, its wire values -WireNeg..WireMax
WireMax == 1
NameModels == 11      \* models when the file names reach two digits
MaxWorkers == 4       \* workers started through start_thread in one run
MaxQueue == 2         \* commands waiting in morphing_data
MaxKq == 1            \* sequences waiting in keypoints_data
boost == 1            \* latency_factor of the configuration file
MaxCmds == 2          \* commands waiting in gui_commands
MaxElapsed == 114     \* longest recording, in clock ticks
TickStep == 57        \* clock advance between two observations, in ticks

\* ------------------------------------------------------- program constants
RECORDING_SR == 44100
max_duration == 14
TicksPerSec == 8      \* clock resolution of the model: 1 tick = 1/8 s
NOOP_MESSAGE == 4
SEQUENCE_LENGTH == 30
STOP_MESSAGE == -1

START_REC == "Start Rec"
STOP_REC == "Stop Rec"
PLAY == "Play"
PAUSE == "Pause"
CLEAR == "Clear"

PCT == "pose_classification_thread"
AM == "audio_morphing"
Names == {PCT, AM}

\* A sound key is a file name of the audio folder: i >= 0 stands for
\* "<i>.npy", REC for "recorded_audio.npy"; NoKey is the integer 0 that
\* __init__ stores in sound_to_mute, which is no file name.
REC == -1
NoKey == -2
None == -9

VARIABLES
    num_models,         \* len(config["morphing"]["model_names"])
    num_actions,        \* len(config["pose_classification"]["actions"])
    gui_isRecording,    \* UserInteractions.isRecording
    gui_paused,         \* UserInteractions.paused
    budget,             \* button clicks left in this run
    cmd_queue,          \* queue "gui_commands"
    cpc,                \* position of the controller thread
    cret,               \* where Controller.clear returns to
    is_first_recording, \* Controller.is_first_recording
    is_recording,       \* AudioRecorder.is_recording
    elapsed,            \* time.time() - start_time of the running recording
    rec_buf,            \* len(Recorder.recorded_audio)
    files,              \* names present in the audio folder
    sounds,             \* AudioPlayer.sounds: keys in insertion order
    volume,             \* Sound.get_volume() of each loaded sound
    playing,            \* loaded sounds that have a live mixer channel
    mixer_paused,       \* pygame.mixer paused
    sound_to_mute,      \* AudioPlayer.sound_to_mute
    threads,            \* ThreadManager.threads: name -> worker (0: absent)
    stop_events,        \* ThreadManager.stop_events: name -> event (0: absent)
    workers,            \* every worker started so far
    nworkers,           \* number of workers started so far
    mq,                 \* queue "morphing_data"
    mq_old,             \* ghost: how many commands at the head of mq were
                        \* enqueued before the last Controller.clear returned
    kq,                 \* queue "keypoints_data": one record per list object,
                        \* len its number of frames, shared whether it is
                        \* the object Webcam's local `sequence` refers to
    events,             \* EventManager.events
    wc_pc,              \* position of the webcam thread
    sequence,           \* Webcam._process_frames: len(sequence)
    counter,            \* Webcam._process_frames: counter
    held,               \* classify_pose: the list object bound to its local
                        \* `sequence` between the get and the conversion
    connection_is_active,   \* Controller.connection_is_active
    sys_threads,        \* ThreadManager.threads, the names "webcam" and "controller"
    sys_events,         \* ThreadManager.stop_events, the same two names
    sys_stop,           \* which of these two stop events are set
    closer,             \* the calls of Controller.close_app, by calling thread
    queues              \* QueueManager.queues: the names created so far

vars == <<num_models, num_actions, gui_isRecording, gui_paused, budget, cmd_queue, cpc, cret,
          is_first_recording, is_recording, elapsed, rec_buf, files, sounds,
          volume, playing, mixer_paused, sound_to_mute, threads, stop_events,
          workers, nworkers, mq, mq_old, kq, events, wc_pc, sequence, counter,
          held, connection_is_active, sys_threads, sys_events, sys_stop, closer,
          queues>>

guiVars == <<gui_isRecording, gui_paused, budget>>
cfgVars == <<num_models, num_actions>>
recVars == <<is_recording, elapsed, rec_buf>>
playerVars == <<sounds, volume, playing, mixer_paused, sound_to_mute>>
tmVars == <<threads, stop_events, workers, nworkers>>
closeVars == <<connection_is_active, sys_threads, sys_events, sys_stop, closer>>
camVars == <<kq, events, wc_pc, sequence, counter, held, closeVars, queues>>
ctlVars == <<cmd_queue, cpc, cret, is_first_recording>>

WIds == 1..MaxWorkers
MaxKeys == IF NameModels > MaxModels /\ NameModels > WideModels THEN NameModels
           ELSE IF MaxModels > WideModels THEN MaxModels ELSE WideModels
Keys == {REC} \cup (0..(MaxKeys - 1))

\* ------------------------------------------------------------- file names
RECURSIVE Digits(_)
\* str(i): the decimal digits of i as character codes
Digits(i) == IF i < 10 THEN <<48 + i>> ELSE Digits(i \div 10) \o <<48 + (i % 10)>>

NpySuffix == <<46, 110, 112, 121>>

\* the file name of a key, as character codes
FileName(k) ==
    IF k = REC
    THEN <<114, 101, 99, 111, 114, 100, 101, 100, 95, 97, 117, 100, 105, 111>> \o NpySuffix
    ELSE Digits(k) \o NpySuffix

RECURSIVE StrLess(_, _)
\* s < t for Python strings
StrLess(s, t) ==
    IF t = <<>> THEN FALSE
    ELSE IF s = <<>> THEN TRUE
    ELSE IF Head(s) # Head(t) THEN Head(s) < Head(t)
    ELSE StrLess(Tail(s), Tail(t))

RECURSIVE SortedNames(_)
\* sorted(S): the keys of S in file-name order
SortedNames(S) ==
    IF S = {} THEN <<>>
    ELSE LET m == CHOOSE x \in S : \A y \in S \ {x} : StrLess(FileName(x), FileName(y))
         IN <<m>> \o SortedNames(S \ {m})

Range(s) == {s[i] : i \in 1..Len(s)}

\* lst[i] of Python: None stands for IndexError
PyIndex(lst, i) ==
    IF i >= 0 /\ i < Len(lst) THEN lst[i + 1]
    ELSE IF i < 0 /\ -i <= Len(lst) THEN lst[Len(lst) + i + 1]
    ELSE None

\* ------------------------------------------------------------------- Init
GUI_COMMANDS == "gui_commands"
KEYPOINTS_DATA == "keypoints_data"
MORPHING_DATA == "morphing_data"
NONE == "None"
WEBCAM == "webcam"
CONTROLLER == "controller"
GUI_THREAD == "gui"
CTL_THREAD == "ctl"
Closers == {GUI_THREAD, CTL_THREAD}
NoClose == [pc |-> "off", todo |-> <<>>, name |-> "", inst |-> 0]

\* Application.run has started the webcam thread and the controller thread;
\* close_app has not been called
InitClose ==
    /\ connection_is_active = TRUE
    /\ sys_threads = {WEBCAM, CONTROLLER}
    /\ sys_events = {WEBCAM, CONTROLLER}
    /\ sys_stop = {}
    /\ closer = [c \in Closers |-> NoClose]

NoWorker == [kind |-> "none", pc |-> "none", stop |-> FALSE, msg |-> None,
             last |-> None, it |-> 0, itsize |-> 0]

Init ==
    /\ \/ /\ num_models \in 1..MaxModels
          /\ num_actions = MaxActions
          /\ budget = MaxClicks
       \/ /\ num_models = WideModels
          /\ num_actions = WideActions
          /\ budget = WideClicks
    /\ gui_isRecording = FALSE
    /\ gui_paused = FALSE
    /\ cmd_queue = <<>>
    /\ cpc = "idle"
    /\ cret = "idle"
    /\ is_first_recording = TRUE
    /\ is_recording = FALSE
    /\ elapsed = 0
    /\ rec_buf = RECORDING_SR * max_duration
    /\ files = {}
    /\ sounds = <<>>
    /\ volume = [k \in Keys |-> 0]
    /\ playing = {}
    /\ mixer_paused = FALSE
    /\ sound_to_mute = NoKey
    /\ threads = [n \in Names |-> 0]
    /\ stop_events = [n \in Names |-> 0]
    /\ workers = [w \in WIds |-> NoWorker]
    /\ nworkers = 0
    /\ mq = <<>>
    /\ mq_old = 0
    /\ kq = <<>>
    /\ sequence = 0
    /\ counter = 0
    /\ held = <<>>
    /\ InitClose
    /\ queues = {GUI_COMMANDS, KEYPOINTS_DATA}
    /\ events = [e \in {"start_extraction", "start_pose_classification"} |-> "absent"]
    /\ wc_pc = "init"


\* ------------------------------------------------------------ AudioPlayer
\* load_sound: a new Sound object (full volume, not playing) under the key
load_sound_order(snd, k) == IF k \in Range(snd) THEN snd ELSE Append(snd, k)

RECURSIVE load_sounds_order(_, _)
\* load_sounds: load_sound for every file of the folder, in sorted order
load_sounds_order(snd, names) ==
    IF names = <<>> THEN snd
    ELSE load_sounds_order(load_sound_order(snd, Head(names)), Tail(names))

\* ---------------------------------------------------------- ThreadManager
\* Thread.is_alive: started and not ended (by return or by an exception)
Alive(w) == workers[w].pc \notin {"none", "done", "RuntimeError", "IndexError"}

\* is_thread_active
is_thread_active(n) == threads[n] # 0 /\ Alive(threads[n])

\* a start_thread that reuses the stop event of the worker started before
\* under the same target, set or not
start_thread_reused_event(n, kind) ==
    LET w == nworkers + 1
        before == {v \in 1..nworkers : workers[v].kind = kind}
    IN
    /\ nworkers < MaxWorkers
    /\ nworkers' = w
    /\ workers' = [workers EXCEPT ![w] =
                      [NoWorker EXCEPT !.kind = kind, !.pc = "start",
                                       !.stop = \E v \in before : workers[v].stop]]
    /\ stop_events' = [stop_events EXCEPT ![n] = w]
    /\ threads' = [threads EXCEPT ![n] = w]

\* start_thread: a fresh stop event and a new running worker under the name
start_thread(n, kind) ==
    LET w == nworkers + 1 IN
    /\ nworkers < MaxWorkers
    /\ nworkers' = w
    /\ workers' = [workers EXCEPT ![w] = [NoWorker EXCEPT !.kind = kind, !.pc = "start"]]
    /\ stop_events' = [stop_events EXCEPT ![n] = w]
    /\ threads' = [threads EXCEPT ![n] = w]

\* a set_event that registers the event it sets
set_event_registering(ev, e) == [ev EXCEPT ![e] = "set"]

\* EventManager.set_event: an event that was never created is not registered
set_event(ev, e) == IF ev[e] = "absent" THEN ev ELSE [ev EXCEPT ![e] = "set"]

\* EventManager.create_event
create_event(ev, e) == IF ev[e] = "absent" THEN [ev EXCEPT ![e] = "unset"] ELSE ev

\* EventManager.get_event: self.events.get(event_name); NONE stands for None
get_event(ev, e) == IF ev[e] = "absent" THEN NONE ELSE e

\* EventManager.is_event_set
is_event_set(ev, e) == ev[e] = "set"

\* EventManager.clear_event: an event that was never created is not registered
clear_event(ev, e) == IF ev[e] = "absent" THEN ev ELSE [ev EXCEPT ![e] = "unset"]

\* QueueManager.create_queue, the dictionary after the call
create_queue(qs, name) == IF name \notin qs THEN qs \cup {name} ELSE qs

\* a create_queue that installs a new Queue() whether or not the name exists
created_queue_replaced(qs, name, content) == <<>>

\* QueueManager.create_queue, the contents of the queue it returns: a new
\* Queue() for a new name, the existing queue else
created_queue(qs, name, content) == IF name \notin qs THEN <<>> ELSE content

\* QueueManager.get_queue: self.queues.get(name)
get_queue(qs, name) == IF name \in qs THEN name ELSE NONE

\* --------------------------------------------------------------- Recorder
\* Recorder.stop_recording: int(min(total_time, max_duration) * RECORDING_SR)
samples_to_keep(total_ticks) ==
    (IF total_ticks < max_duration * TicksPerSec
     THEN total_ticks * RECORDING_SR
     ELSE max_duration * TicksPerSec * RECORDING_SR) \div TicksPerSec

\* recorded_audio[:samples_to_keep, :]
Slice(len, n) == IF n < len THEN n ELSE len

\* AudioRecorder.toggle_recording
toggle_recording ==
    IF ~is_recording
    THEN /\ is_recording' = TRUE
         /\ elapsed' = 0
         /\ rec_buf' = rec_buf
    ELSE /\ is_recording' = FALSE
         /\ elapsed' = 0
         /\ rec_buf' = Slice(rec_buf, samples_to_keep(elapsed))

\* the clock advances while a recording runs
Tick ==
    /\ is_recording
    /\ elapsed + TickStep <= MaxElapsed
    /\ elapsed' = elapsed + TickStep
    /\ UNCHANGED <<cfgVars, guiVars, ctlVars, is_recording, rec_buf, files,
                   playerVars, tmVars, mq, mq_old, camVars>>

\* -------------------------------------------------------------------- GUI
\* workers that the Stop Rec commands issued so far start or will start
WorkersCommitted ==
    nworkers
    + 2 * Cardinality({i \in 1..Len(cmd_queue) : cmd_queue[i] = STOP_REC})
    + (IF cpc \in {"stop_recording", "playback", "timbre", "load", "pose_cls"} THEN 2
       ELSE IF cpc = "start_am" THEN 1 ELSE 0)

\* UserInteractions.handle_recording
handle_recording ==
    /\ budget > 0
    /\ Len(cmd_queue) < MaxCmds
    /\ budget' = budget - 1
    /\ IF gui_isRecording
       THEN /\ WorkersCommitted + 2 <= MaxWorkers
            /\ gui_paused' = FALSE
            /\ gui_isRecording' = FALSE
            /\ cmd_queue' = Append(cmd_queue, STOP_REC)
       ELSE /\ gui_isRecording' = TRUE
            /\ gui_paused' = gui_paused
            /\ cmd_queue' = Append(cmd_queue, START_REC)
    /\ UNCHANGED <<cfgVars, cpc, cret, is_first_recording, recVars, files,
                   playerVars, tmVars, mq, mq_old, camVars>>

\* UserInteractions.handle_play_pause
handle_play_pause ==
    /\ budget > 0
    /\ Len(cmd_queue) < MaxCmds
    /\ budget' = budget - 1
    /\ gui_paused' = ~gui_paused
    /\ cmd_queue' = Append(cmd_queue, IF gui_paused THEN PLAY ELSE PAUSE)
    /\ UNCHANGED <<cfgVars, gui_isRecording, cpc, cret, is_first_recording,
                   recVars, files, playerVars, tmVars, mq, mq_old, camVars>>

\* UserInteractions.handle_clear
handle_clear ==
    /\ budget > 0
    /\ Len(cmd_queue) < MaxCmds
    /\ budget' = budget - 1
    /\ cmd_queue' = Append(cmd_queue, CLEAR)
    /\ UNCHANGED <<cfgVars, gui_isRecording, gui_paused, cpc, cret,
                   is_first_recording, recVars, files, playerVars, tmVars, mq, mq_old,
                   camVars>>

\* ------------------------------------------------------------- Controller
\* a command table whose default entry is the clear handler
process_command_default_clear ==
    /\ cpc = "idle"
    /\ connection_is_active
    /\ cmd_queue # <<>>
    /\ cmd_queue' = Tail(cmd_queue)
    /\ LET c == Head(cmd_queue) IN
       /\ cpc' = CASE c = START_REC -> IF is_first_recording THEN "toggle_recording"
                                        ELSE "clear"
                   [] c = STOP_REC -> "stop_recording"
                   [] c = PLAY -> "play_audio"
                   [] c = PAUSE -> "pause_audio"
                   [] OTHER -> "clear"
       /\ cret' = IF c = START_REC THEN "toggle_recording" ELSE "idle"
    /\ UNCHANGED <<cfgVars, guiVars, is_first_recording, recVars, files,
                   playerVars, tmVars, mq, mq_old, camVars>>

\* a Controller.run that takes the newest command of the queue
process_command_newest ==
    /\ cpc = "idle"
    /\ connection_is_active
    /\ cmd_queue # <<>>
    /\ cmd_queue' = SubSeq(cmd_queue, 1, Len(cmd_queue) - 1)
    /\ LET c == cmd_queue[Len(cmd_queue)] IN
       /\ cpc' = CASE c = START_REC -> IF is_first_recording THEN "toggle_recording"
                                        ELSE "clear"
                   [] c = STOP_REC -> "stop_recording"
                   [] c = PLAY -> "play_audio"
                   [] c = PAUSE -> "pause_audio"
                   [] c = CLEAR -> "clear"
                   [] OTHER -> "idle"
       /\ cret' = IF c = START_REC THEN "toggle_recording" ELSE "idle"
    /\ UNCHANGED <<cfgVars, guiVars, is_first_recording, recVars, files,
                   playerVars, tmVars, mq, mq_old, camVars>>

\* Controller.run takes the next command; CommandHandler.process_command
\* enters its handler (start_recording clears first unless it is the first)
process_command ==
    /\ cpc = "idle"
    /\ connection_is_active
    /\ cmd_queue # <<>>
    /\ cmd_queue' = Tail(cmd_queue)
    /\ LET c == Head(cmd_queue) IN
       /\ cpc' = CASE c = START_REC -> IF is_first_recording THEN "toggle_recording"
                                        ELSE "clear"
                   [] c = STOP_REC -> "stop_recording"
                   [] c = PLAY -> "play_audio"
                   [] c = PAUSE -> "pause_audio"
                   [] c = CLEAR -> "clear"
                   [] OTHER -> "idle"
       /\ cret' = IF c = START_REC THEN "toggle_recording" ELSE "idle"
    /\ UNCHANGED <<cfgVars, guiVars, is_first_recording, recVars, files,
                   playerVars, tmVars, mq, mq_old, camVars>>

\* Controller.start_recording, after its clear: audio_manager.toggle_recording()
start_recording ==
    /\ cpc = "toggle_recording"
    /\ toggle_recording
    /\ cpc' = "idle"
    /\ UNCHANGED <<cfgVars, guiVars, cmd_queue, cret, is_first_recording, files,
                   playerVars, tmVars, mq, mq_old, camVars>>

\* stop_recording_and_process, first part: Controller.stop_recording
stop_recording ==
    /\ cpc = "stop_recording"
    /\ is_first_recording' = FALSE
    /\ toggle_recording
    /\ files' = files \cup {REC}
    /\ cpc' = "playback"
    /\ UNCHANGED <<cfgVars, guiVars, cmd_queue, cret, playerVars, tmVars, mq, mq_old,
                   camVars>>

\* Controller.playback_recorded_audio: load_sound and play_sound of the recording
playback_recorded_audio ==
    /\ cpc = "playback"
    /\ sounds' = load_sound_order(sounds, REC)
    /\ volume' = [volume EXCEPT ![REC] = 1]
    /\ playing' = playing \cup {REC}
    /\ cpc' = "timbre"
    /\ UNCHANGED <<cfgVars, guiVars, cmd_queue, cret, is_first_recording, recVars,
                   files, mixer_paused, sound_to_mute, tmVars, mq, mq_old, camVars>>

\* Controller.perform_timbre_transfer: the engine saves one file per model
timbre_transfer ==
    /\ cpc = "timbre"
    /\ files' = files \cup (0..(num_models - 1))
    /\ cpc' = "load"
    /\ UNCHANGED <<cfgVars, guiVars, cmd_queue, cret, is_first_recording, recVars,
                   playerVars, tmVars, mq, mq_old, camVars>>

\* a perform_timbre_transfer that does not load the bank
load_sounds_skipped ==
    /\ cpc = "load"
    /\ cpc' = "pose_cls"
    /\ UNCHANGED <<cfgVars, guiVars, cmd_queue, cret, is_first_recording, recVars,
                   files, playerVars, tmVars, mq, mq_old, camVars>>

\* Controller.perform_timbre_transfer: audio_manager.load_sounds()
load_sounds ==
    /\ cpc = "load"
    /\ sounds' = load_sounds_order(sounds, SortedNames(files))
    /\ volume' = [k \in Keys |-> IF k \in files THEN 1 ELSE volume[k]]
    /\ playing' = playing \ files
    /\ cpc' = "pose_cls"
    /\ UNCHANGED <<cfgVars, guiVars, cmd_queue, cret, is_first_recording, recVars,
                   files, mixer_paused, sound_to_mute, tmVars, mq, mq_old, camVars>>

\* Controller.pose_classification
pose_classification ==
    /\ cpc = "pose_cls"
    /\ events' = set_event(create_event(set_event(events, "start_extraction"),
                                        "start_pose_classification"),
                           "start_pose_classification")
    /\ queues' = create_queue(queues, MORPHING_DATA)
    /\ mq' = created_queue(queues, MORPHING_DATA, mq)
    /\ start_thread(PCT, "pose")
    /\ cpc' = "start_am"
    /\ UNCHANGED <<cfgVars, guiVars, cmd_queue, cret, is_first_recording, recVars,
                   files, playerVars, mq_old, kq, wc_pc, sequence, counter,
                   held, closeVars>>

\* Controller.start_audio_morphing
start_audio_morphing ==
    /\ cpc = "start_am"
    /\ start_thread(AM, "morph")
    /\ cpc' = "idle"
    /\ UNCHANGED <<cfgVars, guiVars, cmd_queue, cret, is_first_recording, recVars,
                   files, playerVars, mq, mq_old, camVars>>

\* Controller.play_audio: unpause_all_sounds
play_audio ==
    /\ cpc = "play_audio"
    /\ mixer_paused' = IF sounds # <<>> THEN FALSE ELSE mixer_paused
    /\ cpc' = "idle"
    /\ UNCHANGED <<cfgVars, guiVars, cmd_queue, cret, is_first_recording, recVars,
                   files, sounds, volume, playing, sound_to_mute, tmVars, mq, mq_old, camVars>>

\* Controller.pause_audio: pause_all_sounds
pause_audio ==
    /\ cpc = "pause_audio"
    /\ mixer_paused' = IF sounds # <<>> THEN TRUE ELSE mixer_paused
    /\ cpc' = "idle"
    /\ UNCHANGED <<cfgVars, guiVars, cmd_queue, cret, is_first_recording, recVars,
                   files, sounds, volume, playing, sound_to_mute, tmVars, mq, mq_old, camVars>>

\* a clear_sounds that also resets sound_to_mute to its initial value
clear_sounds_reset ==
    /\ cpc = "clear"
    /\ playing' = {}
    /\ sounds' = <<>>
    /\ volume' = [k \in Keys |-> 0]
    /\ sound_to_mute' = NoKey
    /\ cpc' = "stop_pct"
    /\ UNCHANGED <<cfgVars, guiVars, cmd_queue, cret, is_first_recording, recVars,
                   files, mixer_paused, tmVars, mq, mq_old, camVars>>

\* Controller.clear, first statement: audio_manager.clear() -> clear_sounds
clear_sounds ==
    /\ cpc = "clear"
    /\ playing' = {}
    /\ sounds' = <<>>
    /\ volume' = [k \in Keys |-> 0]
    /\ cpc' = "stop_pct"
    /\ UNCHANGED <<cfgVars, guiVars, cmd_queue, cret, is_first_recording, recVars,
                   files, mixer_paused, sound_to_mute, tmVars, mq, mq_old, camVars>>

\* a stop_thread that looks the name up without testing the registry: the
\* lookup of a name that is not registered raises KeyError in the caller
stop_thread_unchecked(n, here, joining, after) ==
    /\ cpc = here
    /\ IF threads[n] # 0 /\ stop_events[n] # 0
       THEN /\ workers' = [workers EXCEPT ![stop_events[n]].stop = TRUE]
            /\ cpc' = joining
       ELSE /\ workers' = workers
            /\ cpc' = "KeyError"
    /\ UNCHANGED <<cfgVars, guiVars, cmd_queue, cret, is_first_recording, recVars,
                   files, playerVars, threads, stop_events, nworkers, mq, camVars>>

\* Controller.stop_thread up to the join of ThreadManager.stop_thread:
\* nothing when the worker is not active, else its stop event is set
stop_thread_signal(n, here, joining, after) ==
    /\ cpc = here
    /\ IF is_thread_active(n) /\ stop_events[n] # 0
       THEN /\ workers' = [workers EXCEPT ![stop_events[n]].stop = TRUE]
            /\ cpc' = joining
       ELSE /\ workers' = workers
            /\ cpc' = after
    /\ UNCHANGED <<cfgVars, guiVars, cmd_queue, cret, is_first_recording, recVars,
                   files, playerVars, threads, stop_events, nworkers, mq, camVars>>

\* a stop_thread whose join returns at once, whether or not the worker ended
stop_thread_nowait(n, joining, after) ==
    /\ cpc = joining
    /\ threads' = [threads EXCEPT ![n] = 0]
    /\ stop_events' = [stop_events EXCEPT ![n] = 0]
    /\ cpc' = after
    /\ UNCHANGED <<cfgVars, guiVars, cmd_queue, cret, is_first_recording, recVars,
                   files, playerVars, workers, nworkers, mq, camVars>>

\* a stop_thread that deletes the thread and leaves its stop event registered
stop_thread_keep_event(n, joining, after) ==
    /\ cpc = joining
    /\ ~Alive(threads[n])
    /\ threads' = [threads EXCEPT ![n] = 0]
    /\ stop_events' = stop_events
    /\ cpc' = after
    /\ UNCHANGED <<cfgVars, guiVars, cmd_queue, cret, is_first_recording, recVars,
                   files, playerVars, workers, nworkers, mq, camVars>>

\* ThreadManager.stop_thread from the join on: the join returns when the
\* worker has ended, then both registry entries are deleted
stop_thread_join(n, joining, after) ==
    /\ cpc = joining
    /\ ~Alive(threads[n])
    /\ threads' = [threads EXCEPT ![n] = 0]
    /\ stop_events' = [stop_events EXCEPT ![n] = 0]
    /\ cpc' = after
    /\ UNCHANGED <<cfgVars, guiVars, cmd_queue, cret, is_first_recording, recVars,
                   files, playerVars, workers, nworkers, mq, camVars>>

\* Controller.clear, second statement, and third statement
clear_stop_pct ==
    /\ stop_thread_signal(PCT, "stop_pct", "join_pct", "stop_am")
    /\ UNCHANGED mq_old

clear_join_pct ==
    /\ stop_thread_join(PCT, "join_pct", "stop_am")
    /\ UNCHANGED mq_old

\* with the last statement Controller.clear returns: what the queue still
\* holds then was enqueued before that
clear_stop_am ==
    /\ stop_thread_signal(AM, "stop_am", "join_am", cret)
    /\ mq_old' = IF cpc' = "join_am" THEN mq_old ELSE Len(mq)

clear_join_am ==
    /\ stop_thread_join(AM, "join_am", cret)
    /\ mq_old' = Len(mq)


\* ------------------------------------------------- AudioPlayer.start_morphing
Pc(w) == workers[w].pc
IsMorph(w) == workers[w].kind = "morph"
IsPose(w) == workers[w].kind = "pose"

\* what a morph worker step leaves alone besides the player and its own record
morphFrame == <<cfgVars, guiVars, ctlVars, recVars, files, threads, stop_events,
                nworkers, camVars>>

\* start_morphing: get_queue, then play_all_sounds opens its iteration over
\* self.sounds.values()
morph_start(w) ==
    /\ IsMorph(w) /\ Pc(w) = "start"
    /\ workers' = [workers EXCEPT ![w].pc = "play_all", ![w].it = 0,
                                  ![w].itsize = Len(sounds)]
    /\ UNCHANGED <<morphFrame, playerVars, mq, mq_old>>

\* play_all_sounds, one turn of the for loop: play the sound and set its volume
\* to 0.0; a dictionary that changed size during the iteration raises
\* RuntimeError, which ends the worker
play_all_sounds(w) ==
    /\ IsMorph(w) /\ Pc(w) = "play_all"
    /\ IF Len(sounds) # workers[w].itsize
       THEN /\ workers' = [workers EXCEPT ![w].pc = "RuntimeError", ![w].it = 0,
                                          ![w].itsize = 0]
            /\ UNCHANGED <<playing, volume>>
       ELSE IF workers[w].it = workers[w].itsize
       THEN /\ workers' = [workers EXCEPT ![w].pc = "first", ![w].it = 0,
                                          ![w].itsize = 0]
            /\ UNCHANGED <<playing, volume>>
       ELSE LET k == sounds[workers[w].it + 1] IN
            /\ playing' = playing \cup {k}
            /\ volume' = [volume EXCEPT ![k] = 0]
            /\ workers' = [workers EXCEPT ![w].it = @ + 1]
    /\ UNCHANGED <<morphFrame, sounds, mixer_paused, sound_to_mute, mq, mq_old>>

\* a play_all_sounds that indexes the first sound: list(...)[0] raises
\* IndexError on an empty dictionary
play_first_sound_indexed(w) ==
    /\ IsMorph(w) /\ Pc(w) = "first"
    /\ IF sounds # <<>>
       THEN /\ volume' = [volume EXCEPT ![sounds[1]] = 1]
            /\ sound_to_mute' = sounds[1]
            /\ workers' = [workers EXCEPT ![w].pc = "check"]
       ELSE /\ UNCHANGED <<volume, sound_to_mute>>
            /\ workers' = [workers EXCEPT ![w].pc = "IndexError"]
    /\ UNCHANGED <<morphFrame, sounds, playing, mixer_paused, mq, mq_old>>

\* play_all_sounds, after the loop: the first sound of the dictionary gets
\* volume 1.0 and becomes sound_to_mute
play_first_sound(w) ==
    /\ IsMorph(w) /\ Pc(w) = "first"
    /\ IF sounds # <<>>
       THEN /\ volume' = [volume EXCEPT ![sounds[1]] = 1]
            /\ sound_to_mute' = sounds[1]
       ELSE UNCHANGED <<volume, sound_to_mute>>
    /\ workers' = [workers EXCEPT ![w].pc = "check"]
    /\ UNCHANGED <<morphFrame, sounds, playing, mixer_paused, mq, mq_old>>

\* a loop test that never looks at the stop event
morph_check_forever(w) ==
    /\ IsMorph(w) /\ Pc(w) = "check"
    /\ workers' = [workers EXCEPT ![w].pc = "get"]
    /\ UNCHANGED <<morphFrame, playerVars, mq, mq_old>>

\* while not stop_event.is_set()
morph_check_stop(w) ==
    /\ IsMorph(w) /\ Pc(w) = "check"
    /\ workers' = [workers EXCEPT ![w].pc = IF workers[w].stop THEN "stop_all" ELSE "get"]
    /\ UNCHANGED <<morphFrame, playerVars, mq, mq_old>>

\* a queue that hands out its newest entry
queue_newest(q) == q[Len(q)]

\* Queue.get: the oldest message
queue_get(q) == Head(q)
queue_rest(q) == Tail(q)

\* a consumption loop without the stop value: -1 is skipped like the value 4
morph_get_nostop(w) ==
    /\ IsMorph(w) /\ Pc(w) = "get"
    /\ IF mq = <<>>
       THEN /\ workers' = [workers EXCEPT ![w].pc = "check"]
            /\ UNCHANGED <<mq, mq_old>>
       ELSE LET message == queue_get(mq) IN
            /\ mq' = queue_rest(mq)
            /\ mq_old' = IF mq_old > 0 THEN mq_old - 1 ELSE 0
            /\ workers' = [workers EXCEPT
                 ![w].msg = IF message \in {NOOP_MESSAGE, STOP_MESSAGE} THEN None
                            ELSE message,
                 ![w].pc = IF message \in {NOOP_MESSAGE, STOP_MESSAGE} THEN "check"
                           ELSE "mute"]
    /\ UNCHANGED <<morphFrame, playerVars>>

\* morphing_queue.get(timeout=1) and the dispatch on the message: Empty and
\* the value 4 go back to the loop test, -1 leaves the loop, any other value
\* goes to _process_message
morph_get(w) ==
    /\ IsMorph(w) /\ Pc(w) = "get"
    /\ IF mq = <<>>
       THEN /\ workers' = [workers EXCEPT ![w].pc = "check"]
            /\ UNCHANGED <<mq, mq_old>>
       ELSE LET message == queue_get(mq) IN
            /\ mq' = queue_rest(mq)
            /\ mq_old' = IF mq_old > 0 THEN mq_old - 1 ELSE 0
            /\ workers' = [workers EXCEPT
                 ![w].msg = IF message \in {NOOP_MESSAGE, STOP_MESSAGE} THEN None
                            ELSE message,
                 ![w].pc = IF message = NOOP_MESSAGE THEN "check"
                           ELSE IF message # STOP_MESSAGE THEN "mute"
                           ELSE "stop_all"]
    /\ UNCHANGED <<morphFrame, playerVars>>

\* _process_message, first half: the sound named by sound_to_mute, if it is
\* loaded, is muted
mute_current(w) ==
    /\ IsMorph(w) /\ Pc(w) = "mute"
    /\ volume' = IF sound_to_mute \in Range(sounds)
                 THEN [volume EXCEPT ![sound_to_mute] = 0] ELSE volume
    /\ workers' = [workers EXCEPT ![w].pc = "activate"]
    /\ UNCHANGED <<morphFrame, sounds, playing, mixer_paused, sound_to_mute, mq, mq_old>>

\* the name that _process_message selects: sorted(list(self.sounds.keys()))[message]
new_sound_name(message) == PyIndex(SortedNames(Range(sounds)), message)

\* _process_message, second half: the index into the sorted names raises
\* IndexError, which ends the worker, or the named sound gets volume 1.0 and
\* becomes sound_to_mute
activate_new(w) ==
    /\ IsMorph(w) /\ Pc(w) = "activate"
    /\ LET name == new_sound_name(workers[w].msg) IN
       IF name = None
       THEN /\ workers' = [workers EXCEPT ![w].pc = "IndexError", ![w].msg = None]
            /\ UNCHANGED <<volume, sound_to_mute>>
       ELSE /\ volume' = [volume EXCEPT ![name] = 1]
            /\ sound_to_mute' = name
            /\ workers' = [workers EXCEPT ![w].pc = "check", ![w].msg = None]
    /\ UNCHANGED <<morphFrame, sounds, playing, mixer_paused, mq, mq_old>>

\* start_morphing, after the loop: stop_all_sounds, and the worker ends
stop_all_sounds(w) ==
    /\ IsMorph(w) /\ Pc(w) = "stop_all"
    /\ playing' = {}
    /\ workers' = [workers EXCEPT ![w].pc = "done"]
    /\ UNCHANGED <<morphFrame, sounds, volume, mixer_paused, sound_to_mute, mq, mq_old>>

\* ----------------------------------------------- PoseClassifier.classify_pose
poseFrame == <<cfgVars, guiVars, ctlVars, recVars, files, playerVars, threads,
               stop_events, nworkers, events, wc_pc, sequence, counter, closeVars,
               queues>>

\* classify_pose: predictions = [] and the two queues
pose_start(w) ==
    /\ IsPose(w) /\ Pc(w) = "start"
    /\ workers' = [workers EXCEPT ![w].pc = "check", ![w].last = None]
    /\ UNCHANGED <<poseFrame, mq, mq_old, kq, held>>

\* while not stop_event.is_set()
pose_check_stop(w) ==
    /\ IsPose(w) /\ Pc(w) = "check"
    /\ workers' = [workers EXCEPT ![w].pc = IF workers[w].stop THEN "done" ELSE "get",
                                  ![w].last = IF workers[w].stop THEN None ELSE @]
    /\ UNCHANGED <<poseFrame, mq, mq_old, kq, held>>

\* keypoints_queue.get(timeout=1): a sequence, or Empty and back to the test
pose_get(w) ==
    /\ IsPose(w) /\ Pc(w) = "get"
    /\ IF kq = <<>>
       THEN /\ workers' = [workers EXCEPT ![w].pc = "check"]
            /\ UNCHANGED <<kq, held>>
       ELSE /\ workers' = [workers EXCEPT ![w].pc = "classify"]
            /\ held' = <<Head(kq)>>
            /\ kq' = Tail(kq)
    /\ UNCHANGED <<poseFrame, mq, mq_old>>

\* _handle_prediction: the index to send, None when the prediction is not
\* confident or repeats the previous confident one
\* a _handle_prediction that returns every confident prediction
handle_prediction_nodedup(last, p) == p

handle_prediction(last, p) == IF p # None /\ p # last THEN p ELSE None

\* the rest of the loop body: when start_pose_classification is set the
\* sequence is classified and a changed confident prediction is put on the
\* morphing queue. _prepare_sequence copies the list into an array
\* (np.asarray), after which the worker reads the list no more.
pose_classify(w) ==
    /\ IsPose(w) /\ Pc(w) = "classify"
    /\ IF events["start_pose_classification"] = "set"
       THEN \E p \in (0..(num_actions - 1)) \cup {None} :
              LET predicted_index == handle_prediction(workers[w].last, p) IN
              /\ predicted_index # None => Len(mq) < MaxQueue
              /\ mq' = IF predicted_index # None THEN Append(mq, predicted_index) ELSE mq
              /\ workers' = [workers EXCEPT ![w].pc = "check",
                               ![w].last = IF predicted_index # None THEN p ELSE @]
       ELSE /\ mq' = mq
            /\ workers' = [workers EXCEPT ![w].pc = "check"]
    /\ held' = <<>>
    /\ UNCHANGED <<poseFrame, kq, mq_old>>

\* ------------------------------------------------------------------ Webcam
\* Webcam._process_frames, before the loop: create_event("start_extraction")
webcam_init ==
    /\ wc_pc = "init"
    /\ events' = create_event(events, "start_extraction")
    /\ wc_pc' = "run"
    /\ UNCHANGED <<cfgVars, guiVars, ctlVars, recVars, files, playerVars, tmVars,
                   mq, mq_old, kq, sequence, counter, held, closeVars, queues>>

\* Webcam._process_frames with KeypointsProcessor.update_frame_data, the
\* frames in between left out: while start_extraction is set, a full window
\* of frames is put on keypoints_data
webcam_emit ==
    /\ wc_pc = "run"
    /\ events["start_extraction"] = "set"
    /\ Len(kq) < MaxKq
    /\ kq' = Append(kq, [len |-> SEQUENCE_LENGTH, shared |-> FALSE])
    /\ UNCHANGED <<cfgVars, guiVars, ctlVars, recVars, files, playerVars, tmVars,
                   mq, mq_old, events, wc_pc, sequence, counter, held, closeVars,
                   queues>>

\* sequence.append(keypoints) as seen from the other references to the same
\* list object: the list grows by one frame under every holder. After the
\* slice that follows, the webcam's `sequence` is a new object.
appended(q) ==
    [i \in 1..Len(q) |->
        IF q[i].shared THEN [len |-> q[i].len + 1, shared |-> FALSE] ELSE q[i]]

\* an update_frame_data that puts the window on the queue at every frame once
\* it is full, whatever the counter
update_frame_data_every_frame ==
    /\ wc_pc = "run"
    /\ events["start_extraction"] = "set"
    /\ LET sliced == IF sequence + 1 > SEQUENCE_LENGTH
                     THEN SEQUENCE_LENGTH ELSE sequence + 1
           full == sliced = SEQUENCE_LENGTH
           put == full
       IN /\ put => Len(kq) < MaxKq
          /\ sequence' = sliced
          /\ held' = appended(held)
          /\ kq' = IF put
                   THEN Append(appended(kq), [len |-> sliced, shared |-> TRUE])
                   ELSE appended(kq)
          /\ counter' = IF put /\ counter = SEQUENCE_LENGTH * boost THEN 0
                        ELSE IF full /\ counter < SEQUENCE_LENGTH * boost
                        THEN counter + 1 ELSE counter
    /\ UNCHANGED <<cfgVars, guiVars, ctlVars, recVars, files, playerVars, tmVars,
                   mq, mq_old, events, wc_pc, closeVars, queues>>

\* Webcam._process_frames, one frame while start_extraction is set:
\* update_frame_data appends the keypoints to the list it was given, binds
\* `sequence` to the slice of the last SEQUENCE_LENGTH frames (a new list),
\* and _update_sequence_and_counter puts that list on keypoints_data when it
\* is full and counter has reached SEQUENCE_LENGTH * boost; the same list is
\* returned to _process_frames, which passes it to the next call
update_frame_data ==
    /\ wc_pc = "run"
    /\ events["start_extraction"] = "set"
    /\ LET sliced == IF sequence + 1 > SEQUENCE_LENGTH
                     THEN SEQUENCE_LENGTH ELSE sequence + 1
           full == sliced = SEQUENCE_LENGTH
           put == full /\ counter = SEQUENCE_LENGTH * boost
       IN /\ put => Len(kq) < MaxKq
          /\ sequence' = sliced
          /\ held' = appended(held)
          /\ kq' = IF put
                   THEN Append(appended(kq), [len |-> sliced, shared |-> TRUE])
                   ELSE appended(kq)
          /\ counter' = IF put THEN 0 ELSE IF full THEN counter + 1 ELSE counter
    /\ UNCHANGED <<cfgVars, guiVars, ctlVars, recVars, files, playerVars, tmVars,
                   mq, mq_old, events, wc_pc, closeVars, queues>>

\* ------------------------------------------------------------------- Next
Gui == handle_recording \/ handle_play_pause \/ handle_clear

ControllerStep ==
    \/ process_command
    \/ start_recording
    \/ stop_recording
    \/ playback_recorded_audio
    \/ timbre_transfer
    \/ load_sounds
    \/ pose_classification
    \/ start_audio_morphing
    \/ play_audio
    \/ pause_audio
    \/ clear_sounds
    \/ clear_stop_pct
    \/ clear_join_pct
    \/ clear_stop_am
    \/ clear_join_am

MorphStep ==
    \E w \in WIds :
        \/ morph_start(w)
        \/ play_all_sounds(w)
        \/ play_first_sound(w)
        \/ morph_check_stop(w)
        \/ morph_get(w)
        \/ mute_current(w)
        \/ activate_new(w)
        \/ stop_all_sounds(w)

PoseStep ==
    \E w \in WIds :
        \/ pose_start(w)
        \/ pose_check_stop(w)
        \/ pose_get(w)
        \/ pose_classify(w)

Next ==
    \/ Gui
    \/ Tick
    \/ ControllerStep
    \/ MorphStep
    \/ PoseStep
    \/ webcam_init
    \/ webcam_emit

Spec == Init /\ [][Next]_vars


\* --------------------------------------------------- the open command queue
\* The command surface without the GUI's button logic: any of the five
\* commands, in any order, is put on gui_commands.
\* and a string that is not a key of command_actions
UNKNOWN == "Unknown"
Commands == {START_REC, STOP_REC, PLAY, PAUSE, CLEAR, UNKNOWN}

put_command(c) ==
    /\ budget > 0
    /\ Len(cmd_queue) < MaxCmds
    /\ c = STOP_REC => WorkersCommitted + 2 <= MaxWorkers
    /\ budget' = budget - 1
    /\ cmd_queue' = Append(cmd_queue, c)
    /\ UNCHANGED <<cfgVars, gui_isRecording, gui_paused, cpc, cret,
                   is_first_recording, recVars, files, playerVars, tmVars, mq,
                   mq_old, camVars>>

InitOpen ==
    /\ num_models \in 1..MaxModels
    /\ num_actions = OpenActions
    /\ budget = OpenCmds
    /\ gui_isRecording = FALSE
    /\ gui_paused = FALSE
    /\ cmd_queue = <<>>
    /\ cpc = "idle"
    /\ cret = "idle"
    /\ is_first_recording = TRUE
    /\ is_recording = FALSE
    /\ elapsed = 0
    /\ rec_buf = RECORDING_SR * max_duration
    /\ files = {}
    /\ sounds = <<>>
    /\ volume = [k \in Keys |-> 0]
    /\ playing = {}
    /\ mixer_paused = FALSE
    /\ sound_to_mute = NoKey
    /\ threads = [n \in Names |-> 0]
    /\ stop_events = [n \in Names |-> 0]
    /\ workers = [w \in WIds |-> NoWorker]
    /\ nworkers = 0
    /\ mq = <<>>
    /\ mq_old = 0
    /\ kq = <<>>
    /\ sequence = 0
    /\ counter = 0
    /\ held = <<>>
    /\ InitClose
    /\ queues = {GUI_COMMANDS, KEYPOINTS_DATA}
    /\ events = [e \in {"start_extraction", "start_pose_classification"} |-> "absent"]
    /\ wc_pc = "init"

NextOpen ==
    \/ \E c \in Commands : put_command(c)
    \/ Tick
    \/ ControllerStep
    \/ MorphStep
    \/ PoseStep
    \/ webcam_init
    \/ webcam_emit

SpecOpen == InitOpen /\ [][NextOpen]_vars

\* --------------------------------------------------- the open morphing queue
\* The wire surface of the morph engine: besides the classifier, any producer
\* may put any wire value on morphing_data through enqueue_message.
WireValues == (0 - WireNeg)..WireMax

\* ThreadManager.enqueue_message("morphing_data", m)
enqueue_message(m) ==
    /\ get_queue(queues, MORPHING_DATA) # NONE
    /\ Len(mq) < MaxQueue
    /\ mq' = Append(mq, m)
    /\ UNCHANGED <<cfgVars, guiVars, ctlVars, recVars, files, playerVars, tmVars,
                   mq_old, camVars>>

InitWire ==
    /\ num_models \in 1..MaxModels
    /\ num_actions = OpenActions
    /\ budget = WireClicks
    /\ gui_isRecording = FALSE
    /\ gui_paused = FALSE
    /\ cmd_queue = <<>>
    /\ cpc = "idle"
    /\ cret = "idle"
    /\ is_first_recording = TRUE
    /\ is_recording = FALSE
    /\ elapsed = 0
    /\ rec_buf = RECORDING_SR * max_duration
    /\ files = {}
    /\ sounds = <<>>
    /\ volume = [k \in Keys |-> 0]
    /\ playing = {}
    /\ mixer_paused = FALSE
    /\ sound_to_mute = NoKey
    /\ threads = [n \in Names |-> 0]
    /\ stop_events = [n \in Names |-> 0]
    /\ workers = [w \in WIds |-> NoWorker]
    /\ nworkers = 0
    /\ mq = <<>>
    /\ mq_old = 0
    /\ kq = <<>>
    /\ sequence = 0
    /\ counter = 0
    /\ held = <<>>
    /\ InitClose
    /\ queues = {GUI_COMMANDS, KEYPOINTS_DATA}
    /\ events = [e \in {"start_extraction", "start_pose_classification"} |-> "absent"]
    /\ wc_pc = "init"

NextWire ==
    \/ Gui
    \/ \E m \in WireValues : enqueue_message(m)
    \/ Tick
    \/ ControllerStep
    \/ MorphStep
    \/ PoseStep
    \/ webcam_init
    \/ webcam_emit

SpecWire == InitWire /\ [][NextWire]_vars

\* The program of Spec in one small configuration, with every started thread
\* scheduled again and again: the queue polls are bounded (get(timeout=1)),
\* so a worker that is alive always has a next step.
FairSpec == InitWire /\ [][Next]_vars /\ WF_vars(MorphStep) /\ WF_vars(PoseStep)

\* ------------------------------------------------- the webcam frame by frame
\* The program with every frame of the webcam followed, from the start of
\* the extraction on.
NextFrames ==
    \/ Gui
    \/ Tick
    \/ ControllerStep
    \/ MorphStep
    \/ PoseStep
    \/ webcam_init
    \/ update_frame_data

SpecFrames == InitWire /\ [][NextFrames]_vars

\* ------------------------------------------------------- many timbre models
\* The program configured with enough models for file names of two digits.
InitNames ==
    /\ num_models \in {1, NameModels}
    /\ num_actions = OpenActions
    /\ budget = WireClicks
    /\ gui_isRecording = FALSE
    /\ gui_paused = FALSE
    /\ cmd_queue = <<>>
    /\ cpc = "idle"
    /\ cret = "idle"
    /\ is_first_recording = TRUE
    /\ is_recording = FALSE
    /\ elapsed = 0
    /\ rec_buf = RECORDING_SR * max_duration
    /\ files = {}
    /\ sounds = <<>>
    /\ volume = [k \in Keys |-> 0]
    /\ playing = {}
    /\ mixer_paused = FALSE
    /\ sound_to_mute = NoKey
    /\ threads = [n \in Names |-> 0]
    /\ stop_events = [n \in Names |-> 0]
    /\ workers = [w \in WIds |-> NoWorker]
    /\ nworkers = 0
    /\ mq = <<>>
    /\ mq_old = 0
    /\ kq = <<>>
    /\ sequence = 0
    /\ counter = 0
    /\ held = <<>>
    /\ InitClose
    /\ queues = {GUI_COMMANDS, KEYPOINTS_DATA}
    /\ events = [e \in {"start_extraction", "start_pose_classification"} |-> "absent"]
    /\ wc_pc = "init"

SpecNames == InitNames /\ [][Next]_vars

\* ------------------------------------------------------------ close_app
\* ThreadManager.threads in insertion order: the webcam and the controller
\* are started first, the two workers at each stop-recording
AllNames == <<WEBCAM, CONTROLLER, PCT, AM>>

\* thread_name in self.threads
Registered(n) == IF n \in Names THEN threads[n] # 0 ELSE n \in sys_threads

\* Thread.is_alive of the webcam thread, the controller thread and a worker
ControllerAlive == cpc \notin {"closed", "Exception", "KeyError"}
InstanceAlive(n, w) ==
    IF n = WEBCAM THEN wc_pc # "done"
    ELSE IF n = CONTROLLER THEN ControllerAlive
    ELSE Alive(w)

\* thread.ident == current_thread_id: the entry of the calling thread
Own(c) == IF c = CTL_THREAD THEN CONTROLLER ELSE "none"

\* close_app: list(self.thread_manager.threads.items())
Snapshot == SelectSeq(AllNames, Registered)

\* pynput listener, Controller.on_press: Esc
on_press ==
    /\ connection_is_active
    /\ connection_is_active' = FALSE
    /\ UNCHANGED <<cfgVars, guiVars, ctlVars, recVars, files, playerVars, tmVars,
                   mq, mq_old, kq, events, wc_pc, sequence, counter, held,
                   sys_threads, sys_events, sys_stop, closer, queues>>

\* Window.closeEvent emits closing, connected to Controller.close_app, which
\* then runs on the GUI thread
window_close ==
    /\ closer[GUI_THREAD].pc = "off"
    /\ closer' = [closer EXCEPT ![GUI_THREAD] =
                    [pc |-> "loop", todo |-> Snapshot, name |-> "", inst |-> 0]]
    /\ UNCHANGED <<cfgVars, guiVars, ctlVars, recVars, files, playerVars, tmVars,
                   mq, mq_old, kq, events, wc_pc, sequence, counter, held,
                   connection_is_active, sys_threads, sys_events, sys_stop, queues>>

\* Controller.run leaves its loop, on connection_is_active or on its stop
\* event, and calls close_app on the controller thread
run_exit ==
    /\ cpc = "idle"
    /\ ~connection_is_active \/ CONTROLLER \in sys_stop
    /\ cpc' = "close_app"
    /\ closer' = [closer EXCEPT ![CTL_THREAD] =
                    [pc |-> "loop", todo |-> Snapshot, name |-> "", inst |-> 0]]
    /\ UNCHANGED <<cfgVars, guiVars, cmd_queue, cret, is_first_recording, recVars,
                   files, playerVars, tmVars, mq, mq_old, kq, events, wc_pc,
                   sequence, counter, held, connection_is_active, sys_threads,
                   sys_events, sys_stop, queues>>

\* Webcam._process_frames: if stop_event.is_set(): break
webcam_stop ==
    /\ wc_pc = "run"
    /\ WEBCAM \in sys_stop
    /\ wc_pc' = "done"
    /\ UNCHANGED <<cfgVars, guiVars, ctlVars, recVars, files, playerVars, tmVars,
                   mq, mq_old, kq, events, sequence, counter, held, closeVars,
                   queues>>

\* close_app, one turn of the for loop up to the join of stop_thread: the own
\* thread is skipped, stop_thread returns at once for a name that is not
\* registered, else it sets the stop event of the name. After the loop
\* app.quit() and, on the controller thread, the end of run.
close_app_loop(c) ==
    /\ closer[c].pc = "loop"
    /\ IF closer[c].todo = <<>>
       THEN /\ closer' = [closer EXCEPT ![c].pc = "done"]
            /\ cpc' = IF c = CTL_THREAD THEN "closed" ELSE cpc
            /\ UNCHANGED <<workers, sys_stop>>
       ELSE LET n == Head(closer[c].todo) IN
            /\ cpc' = cpc
            /\ IF n = Own(c) \/ ~Registered(n)
               THEN /\ closer' = [closer EXCEPT ![c].todo = Tail(@)]
                    /\ UNCHANGED <<workers, sys_stop>>
               ELSE /\ closer' = [closer EXCEPT ![c].pc = "join", ![c].name = n,
                                    ![c].inst = IF n \in Names THEN threads[n] ELSE 0]
                    /\ IF n \in Names
                       THEN /\ workers' = [workers EXCEPT ![stop_events[n]].stop = TRUE]
                            /\ sys_stop' = sys_stop
                       ELSE /\ sys_stop' = sys_stop \cup {n}
                            /\ workers' = workers
    /\ UNCHANGED <<cfgVars, guiVars, cmd_queue, cret, is_first_recording, recVars,
                   files, playerVars, threads, stop_events, nworkers, mq, mq_old,
                   kq, events, wc_pc, sequence, counter, held,
                   connection_is_active, sys_threads, sys_events, queues>>

\* stop_thread from the join on, called by close_app: the join returns when
\* the thread has ended, then both entries are deleted. del of a name that
\* another caller has deleted meanwhile raises KeyError, which the except of
\* close_app catches: the call ends there.
close_app_join(c) ==
    /\ closer[c].pc = "join"
    /\ ~InstanceAlive(closer[c].name, closer[c].inst)
    /\ LET n == closer[c].name IN
       IF Registered(n)
       THEN /\ closer' = [closer EXCEPT ![c].pc = "loop", ![c].todo = Tail(@),
                                        ![c].name = "", ![c].inst = 0]
            /\ threads' = IF n \in Names THEN [threads EXCEPT ![n] = 0] ELSE threads
            /\ stop_events' = IF n \in Names THEN [stop_events EXCEPT ![n] = 0]
                              ELSE stop_events
            /\ sys_threads' = sys_threads \ {n}
            /\ sys_events' = sys_events \ {n}
            /\ cpc' = cpc
       ELSE /\ closer' = [closer EXCEPT ![c].pc = "KeyError"]
            /\ cpc' = IF c = CTL_THREAD THEN "closed" ELSE cpc
            /\ UNCHANGED <<threads, stop_events, sys_threads, sys_events>>
    /\ UNCHANGED <<cfgVars, guiVars, cmd_queue, cret, is_first_recording, recVars,
                   files, playerVars, workers, nworkers, mq, mq_old, kq, events,
                   wc_pc, sequence, counter, held, connection_is_active, sys_stop,
                   queues>>

\* the GUI thread handles clicks until it runs close_app
GuiOpen == closer[GUI_THREAD].pc = "off" /\ Gui

NextClose ==
    \/ GuiOpen
    \/ Tick
    \/ ControllerStep
    \/ MorphStep
    \/ PoseStep
    \/ webcam_init
    \/ webcam_emit
    \/ webcam_stop
    \/ on_press
    \/ window_close
    \/ run_exit
    \/ \E c \in Closers : close_app_loop(c)
    \/ \E c \in Closers : close_app_join(c)

SpecClose == InitWire /\ [][NextClose]_vars

\* ----------------------------------------------- a failing resynthesis step
\* ddsp_engine.timbre_transfer() raises: the exception leaves
\* perform_timbre_transfer, stop_recording_and_process, process_command and
\* Controller.run, none of which catches it, and ends the controller thread
timbre_transfer_raises ==
    /\ cpc = "timbre"
    /\ cpc' = "Exception"
    /\ UNCHANGED <<cfgVars, guiVars, cmd_queue, cret, is_first_recording, recVars,
                   files, playerVars, tmVars, mq, mq_old, camVars>>

NextFail == Next \/ timbre_transfer_raises

\* the program in one small configuration, with a resynthesis step that may
\* raise
SpecFail == InitWire /\ [][NextFail]_vars

\* ================================================================= claims
\* the step is taken by worker w
Step(w) == workers'[w].pc # workers[w].pc

\* the loaded tracks at full gain
Audible == {k \in Range(sounds) : volume[k] = 1}

\* message m names a loaded track
InRange(m) == m >= 0 /\ m < Len(sounds)

\* C1: exclusive audibility. Whenever the morph engine has finished
\* play_all_sounds on a loaded bank, and whenever it has finished with a
\* SwitchCommand it took from the queue, exactly one loaded track has gain 1
\* and every other loaded track has gain 0.
C1_ExclusiveAudibility ==
    [][\A w \in WIds :
          (IsMorph(w) /\ Pc(w) \in {"first", "activate"} /\ Step(w) /\ sounds # <<>>)
          => (Cardinality(Audible') = 1
              /\ \A k \in Range(sounds') \ Audible' : volume'[k] = 0)]_vars

\* C2: an out-of-range switch is a no-op. While the engine handles a command
\* whose index is >= the number of loaded tracks, the audible track id and
\* every gain stay as they are and the worker stays alive.
C2_OutOfRangeIsNoOp ==
    [][\A w \in WIds :
          (IsMorph(w) /\ Pc(w) \in {"mute", "activate"} /\ Step(w)
           /\ workers[w].msg >= Len(sounds))
          => (volume' = volume /\ sound_to_mute' = sound_to_mute /\ Alive(w)')]_vars

\* the command the engine is about to be finished with in this step
Handled(w) == IF Pc(w) = "get" THEN (IF mq = <<>> THEN None ELSE Head(mq))
              ELSE workers[w].msg

\* worker w ends its work on a dequeued command in this step
Finishes(w) ==
    /\ IsMorph(w) /\ Pc(w) \in {"get", "activate"} /\ Step(w)
    /\ workers'[w].pc \in {"check", "IndexError"}
    /\ Handled(w) # None

\* C3 (as claimed): every SwitchCommand is applied, in the order of the
\* queue: as soon as the engine is finished with a dequeued in-range command
\* a, track a is the one audible track.
C3_EverySwitchApplied ==
    [][\A w \in WIds :
          (Finishes(w) /\ InRange(Handled(w)))
          => Audible' = {new_sound_name(Handled(w))}]_vars

\* C3, the queue discipline alone, which holds whatever the values are: the
\* engine takes the commands off the queue oldest first,
\* one at a time, and nothing else takes or drops one; every command it takes
\* other than the no-op value 4 and the stop value -1 goes to
\* _process_message before the next one is taken, and when its index is in
\* range the track of that index becomes the one audible track and
\* sound_to_mute.
C3_FifoNoCoalescing ==
    [][/\ mq' # mq =>
            \/ \E m \in 0..(num_actions - 1) : mq' = Append(mq, m)
            \/ /\ mq # <<>>
               /\ mq' = Tail(mq)
               /\ \E w \in WIds :
                     /\ IsMorph(w) /\ Pc(w) = "get" /\ Step(w)
                     /\ Head(mq) \notin {NOOP_MESSAGE, STOP_MESSAGE}
                        => (workers'[w].pc = "mute" /\ workers'[w].msg = Head(mq))
       /\ \A w \in WIds :
            (Finishes(w) /\ InRange(Handled(w)) /\ Handled(w) # NOOP_MESSAGE)
            => (/\ Audible' = {new_sound_name(Handled(w))}
                /\ sound_to_mute' = new_sound_name(Handled(w)))
       /\ \A w \in WIds :
            (IsMorph(w) /\ Pc(w) \in {"mute", "activate"})
            => \A v \in WIds \ {w} : ~(IsMorph(v) /\ Alive(v))]_vars

\* C3 witness: with a further command waiting in the queue, the engine is
\* about to apply an in-range command after an earlier switch to a variant
C3_Witness ==
    \E w \in WIds :
        /\ IsMorph(w) /\ Pc(w) = "activate"
        /\ InRange(workers[w].msg)
        /\ sound_to_mute \in 0..(num_models - 1)
        /\ new_sound_name(workers[w].msg) # sound_to_mute
        /\ mq # <<>>

\* C4: idempotent switch. While the engine handles switch(k) for the in-range
\* track k that is already the audible one, track k never has gain 0.
C4_NoDoubleMute ==
    \A w \in WIds :
        (IsMorph(w) /\ Pc(w) = "activate" /\ InRange(workers[w].msg)
         /\ new_sound_name(workers[w].msg) = sound_to_mute)
        => volume[sound_to_mute] = 1


\* Controller.clear returns in this step
ClearReturns == cpc \in {"stop_am", "join_am"} /\ cpc' \notin {"stop_am", "join_am"}

\* C5: clean teardown. Whenever Controller.clear returns, no worker started by
\* the controller is alive and the track bank holds no track.
C5_CleanTeardown ==
    [][ClearReturns => ((\A w \in WIds : ~Alive(w)') /\ sounds' = <<>>)]_vars

\* C5 witness: clear has returned after a cycle whose engine was handling a
\* command while the bank was cleared
C5_Witness ==
    /\ cpc \in {"idle", "toggle_recording"}
    /\ threads[PCT] = 0 /\ sounds = <<>>
    /\ \E w \in WIds : IsMorph(w) /\ Pc(w) = "IndexError"
    /\ \E w \in WIds : IsPose(w) /\ Pc(w) = "done"

\* C6: no residual switch commands. While a morph engine is alive the queue
\* holds no command that was enqueued before the preceding clear() returned.
C6_NoResidualCommands ==
    (\E w \in WIds : IsMorph(w) /\ Alive(w)) => mq_old = 0

\* C7: recording trim. The buffer finalized by a stop has exactly
\* floor(min(t1 - t0, max_duration) * sample_rate) samples and never more than
\* max_duration * sample_rate.
C7_RecordingTrim ==
    [][(is_recording /\ ~is_recording')
       => (/\ rec_buf' = ((IF elapsed < max_duration * TicksPerSec THEN elapsed
                           ELSE max_duration * TicksPerSec) * RECORDING_SR) \div TicksPerSec
           /\ rec_buf' <= max_duration * RECORDING_SR)]_vars

\* C8: every recording captures into a buffer of sample_rate * max_duration
\* samples, whatever was recorded before.
C8_FullCapacity == is_recording => rec_buf = RECORDING_SR * max_duration

\* C9: ordered teardown. The morph-engine worker is never alive while the
\* track bank has already been released.
C9_EngineNeverOutlivesBank ==
    \A w \in WIds : (IsMorph(w) /\ Alive(w)) => sounds # <<>>

\* the kind of worker the controller starts under a name
KindOf(n) == IF n = PCT THEN "pose" ELSE "morph"

\* C10: at most one live worker per name, and the cancellation signal of every
\* live worker is the one registered under its name.
C10_OneLiveWorkerPerName ==
    \A n \in Names :
        /\ Cardinality({w \in WIds : Alive(w) /\ workers[w].kind = KindOf(n)}) <= 1
        /\ \A w \in WIds :
              (Alive(w) /\ workers[w].kind = KindOf(n)) => stop_events[n] = w


\* the name Controller.clear is about to stop
StopTarget == IF cpc = "stop_pct" THEN PCT ELSE AM

\* C11: stopping a name that is not registered (never started, or stopped
\* before) is a no-op: stop_thread returns to its caller without an exception
\* and the thread registry, the stop events, the workers, the queues and the
\* named events are unchanged.
C11_StopAbsentIsNoOp ==
    [][(cpc \in {"stop_pct", "stop_am"} /\ cpc' # cpc /\ threads[StopTarget] = 0)
       => (/\ cpc' = IF cpc = "stop_pct" THEN "stop_am" ELSE cret
           /\ UNCHANGED <<threads, stop_events, workers, cmd_queue, mq, kq, events>>)]_vars

\* C11 witness: a second clear, after the first one stopped both names, has
\* gone through stop_thread of the classification name
C11_Witness ==
    /\ cpc = "stop_am"
    /\ threads[PCT] = 0 /\ threads[AM] = 0
    /\ nworkers >= 2

\* C12: start_morphing reaches PLAYING before any command is consumed. A morph
\* worker takes a command off the queue only in its loop, it enters the loop
\* only when play_all_sounds has returned, and at that moment exactly one
\* loaded track has gain 1 and every other loaded track has gain 0.
C12_PlayingBeforeDequeue ==
    [][\A w \in WIds :
          (IsMorph(w) /\ Step(w))
          => (/\ Len(mq') < Len(mq) => Pc(w) = "get"
              /\ workers'[w].pc = "get" => Pc(w) = "check"
              /\ workers'[w].pc = "check" => Pc(w) \in {"first", "get", "activate"}
              /\ (Pc(w) = "first" /\ workers'[w].pc = "check")
                 => (/\ Cardinality(Audible') = 1
                     /\ \A k \in Range(sounds') \ Audible' : volume'[k] = 0))]_vars


C14_CancellationObserved ==
    /\ \A w \in WIds : (workers[w].stop /\ Alive(w)) ~> ~Alive(w)
    /\ [][\A w \in WIds :
            (IsMorph(w) /\ Step(w) /\ workers[w].stop /\ Pc(w) \in {"check", "stop_all"})
            => workers'[w].pc = (IF Pc(w) = "check" THEN "stop_all" ELSE "done")]_vars

\* C14 witness: both workers of a cycle have ended on their stop events with
\* nothing on their queues
C14_Witness ==
    /\ mq = <<>> /\ kq = <<>>
    /\ \E w \in WIds : IsMorph(w) /\ Pc(w) = "done" /\ workers[w].stop
    /\ \E w \in WIds : IsPose(w) /\ Pc(w) = "done" /\ workers[w].stop


\* C15: the initial audible track is track 0. When play_all_sounds returns on
\* a loaded bank, the one track at full gain, and sound_to_mute, is the track
\* that index 0 selects: the first name in sorted order.
C15_InitialTrackIsTrackZero ==
    [][\A w \in WIds :
          (IsMorph(w) /\ Pc(w) = "first" /\ Step(w) /\ sounds # <<>>)
          => (/\ Audible' = {PyIndex(SortedNames(Range(sounds)), 0)}
              /\ sound_to_mute' = PyIndex(SortedNames(Range(sounds)), 0))]_vars

\* C16: switch(k) selects track k for every in-range k. When the engine is
\* finished with a dequeued command whose index k is in range, the k-th track
\* in sorted order has gain 1 and is sound_to_mute, and the track that was
\* audible before, if it is another one, has gain 0; no in-range index is
\* skipped.
C16_SwitchSelectsTrack ==
    [][\A w \in WIds :
          (Finishes(w) /\ InRange(Handled(w)))
          => LET track == new_sound_name(Handled(w)) IN
             /\ sound_to_mute' = track
             /\ volume'[track] = 1
             /\ (sound_to_mute \in Range(sounds) /\ sound_to_mute # track)
                => volume'[sound_to_mute] = 0]_vars

\* C17: a negative wire value other than -1 is a no-op. While the engine
\* handles such a value no gain and not sound_to_mute changes, and the engine
\* stays alive.
C17_NegativeIsNoOp ==
    [][\A w \in WIds :
          (/\ IsMorph(w) /\ Step(w) /\ Pc(w) \in {"get", "mute", "activate"}
           /\ Handled(w) # None /\ Handled(w) < 0 /\ Handled(w) # STOP_MESSAGE)
          => (UNCHANGED <<volume, sound_to_mute>> /\ Alive(w)')]_vars


\* the statements of Controller.stop_recording_and_process, in program order
CycleSteps == <<"stop_recording", "playback", "timbre", "load", "pose_cls", "start_am">>

\* C18: cross-component ordering in stop_recording_and_process. The controller
\* goes through stop and save of the recording, playback, resynthesis, load
\* of the bank, start of the classification worker and start of the morph
\* worker in this order, each after the one before has returned; a worker is
\* started only when the recording is stopped and saved, every variant is
\* written and the bank holds every file; and no morph worker is alive while
\* the controller is at a statement before the start of the morph worker.
C18_CycleOrder ==
    [][/\ \A i \in 1..(Len(CycleSteps) - 1) :
            (cpc = CycleSteps[i] /\ cpc' # cpc) => cpc' = CycleSteps[i + 1]
       /\ nworkers' # nworkers
          => (/\ cpc = (IF workers'[nworkers'].kind = "pose" THEN "pose_cls" ELSE "start_am")
              /\ ~is_recording
              /\ {REC} \cup (0..(num_models - 1)) \subseteq files
              /\ Range(sounds) = files)
       /\ \A w \in WIds :
            (workers'[w].kind = "morph" /\ workers'[w].pc \notin {"done", "RuntimeError", "IndexError"})
            => cpc' \notin {"stop_recording", "playback", "timbre", "load", "pose_cls",
                            "start_am"}]_vars

\* C18 witness: a second cycle has been processed to its end, its morph
\* worker is started on the loaded bank
C18_Witness ==
    /\ cpc = "idle"
    /\ nworkers = 4
    /\ IsMorph(4) /\ Pc(4) = "start"
    /\ Range(sounds) = files

\* C19: an unrecognized command is ignored. When the controller takes a
\* command that is not in the command table, the controller is ready for the
\* next command and the recording state, the bank, the thread registry, the
\* workers, the queues and the events are unchanged.
C19_UnknownCommandIgnored ==
    [][(/\ cpc = "idle" /\ cmd_queue # <<>> /\ cmd_queue' = Tail(cmd_queue)
        /\ Head(cmd_queue) \notin {START_REC, STOP_REC, PLAY, PAUSE, CLEAR})
       => (/\ cpc' = "idle"
           /\ UNCHANGED <<is_recording, is_first_recording, rec_buf, files, playerVars,
                          tmVars, mq, kq, events>>)]_vars

\* C19 witness: an unrecognized command was taken while a recording was
\* running, and the recording still runs
C19_Witness ==
    /\ cpc = "idle" /\ cmd_queue = <<>>
    /\ budget = 0
    /\ is_recording /\ is_first_recording
    /\ nworkers = 0

\* C20: de-duplication. A classification worker puts an index on the morphing
\* queue only when it is a confident prediction (an action index) that differs
\* from the last one this run of the worker has put, which it remembers; a
\* step that puts nothing leaves that memory as it is.
C20_Dedup ==
    [][\A w \in WIds :
          (IsPose(w) /\ Pc(w) = "classify" /\ Step(w))
          => \/ /\ mq' = mq
                /\ workers'[w].last = workers[w].last
             \/ \E p \in 0..(num_actions - 1) :
                   /\ mq' = Append(mq, p)
                   /\ p # workers[w].last
                   /\ workers'[w].last = p]_vars

\* C20 witness: one run of the worker has put two commands, which differ
C20_Witness ==
    /\ Len(mq) = 2 /\ mq[1] # mq[2]
    /\ mq_old = 0
    /\ nworkers = 2
    /\ \E w \in WIds : IsPose(w) /\ workers[w].last = mq[2]


\* C21: the command cycle is enforced. A Stop Rec that the controller takes
\* while no recording runs is not dispatched to its handler, and a recording
\* starts only in the handler of Start Rec.
C21_CycleEnforced ==
    [][/\ (/\ cpc = "idle" /\ cmd_queue # <<>> /\ cmd_queue' = Tail(cmd_queue)
           /\ Head(cmd_queue) = STOP_REC /\ ~is_recording)
          => cpc' = "idle"
       /\ (~is_recording /\ is_recording') => cpc = "toggle_recording"]_vars


\* C22: a resynthesis failure aborts only the current cycle. When the
\* resynthesis step raises, the controller is back at its command loop, and
\* no worker is started until it takes the next command.
C22_FailureAbortsCycleOnly ==
    [][/\ (cpc = "timbre" /\ cpc' \notin {"timbre", "load"}) => cpc' = "idle"
       /\ (nworkers' # nworkers) => cpc \in {"pose_cls", "start_am"}]_vars


\* C23: every SwitchCommand is consumed exactly once by the morph engine. A
\* command leaves the queue only by the get of a morph engine, one command
\* per get, and when an engine ends no command is left in the queue.
C23_ConsumedExactlyOnce ==
    [][/\ Len(mq') < Len(mq)
          => (/\ mq' = Tail(mq)
              /\ \E w \in WIds : IsMorph(w) /\ Pc(w) = "get" /\ Step(w))
       /\ \A w \in WIds :
            (IsMorph(w) /\ Alive(w) /\ ~Alive(w)') => mq' = <<>>]_vars

\* C24: play_all on an empty bank is a no-op. A morph engine that runs
\* play_all_sounds on a bank without tracks sets no gain, starts no track,
\* leaves sound_to_mute as it is and stays alive.
C24_PlayAllOnEmptyBank ==
    [][\A w \in WIds :
          (/\ IsMorph(w) /\ Step(w) /\ sounds = <<>>
           /\ \/ Pc(w) = "play_all" /\ workers[w].itsize = 0
              \/ Pc(w) = "first")
          => (UNCHANGED <<volume, playing, sound_to_mute>> /\ Alive(w)')]_vars

\* C24 witness: play_all_sounds has gone through its loop on an empty bank and
\* is at the choice of the first sound
C24_Witness ==
    \E w \in WIds :
        /\ IsMorph(w) /\ Pc(w) = "first"
        /\ sounds = <<>> /\ playing = {}
        /\ ~workers[w].stop


\* C25: while a morph engine is alive, the track bank and the mixer (sounds,
\* volume, playing, mixer_paused, sound_to_mute) change only by a step of a
\* live morph engine, never by play, pause or clear of the controller.
C25_EngineOwnsBank ==
    [][((\E w \in WIds : IsMorph(w) /\ Alive(w)) /\ playerVars' # playerVars)
       => \E w \in WIds : IsMorph(w) /\ Alive(w) /\ workers'[w] # workers[w]]_vars

\* C26: a morph engine that ends, for whatever reason, ends with all tracks
\* halted: in the state where it has just terminated nothing is playing.
C26_DeadEngineSilent ==
    [][\A w \in WIds :
          (IsMorph(w) /\ Alive(w) /\ ~Alive(w)') => playing' = {}]_vars

\* C27: sound_to_mute is written only by a morph engine, in play_all_sounds
\* (the choice of the first sound) and in _process_message (the activation of
\* the new sound); no step of the controller, the classifier, the webcam or the
\* GUI changes it.
C27_OnlyEngineWrites ==
    [][sound_to_mute' # sound_to_mute
       => \E w \in WIds : /\ IsMorph(w) /\ Pc(w) \in {"first", "activate"}
                          /\ Step(w)]_vars

\* C27 witness: the controller has cleared the bank after an engine chose a
\* sound, and sound_to_mute still names that sound
C27_Witness ==
    /\ cpc = "stop_pct"
    /\ sounds = <<>>
    /\ sound_to_mute # NoKey


\* C28: every keypoint sequence holds exactly SEQUENCE_LENGTH frames when the
\* classification worker dequeues it, and the webcam never changes a list
\* that is in keypoints_data or in the hands of the worker.
C28_SequenceFixedAndUnshared ==
    [][/\ \A w \in WIds :
            (IsPose(w) /\ Pc(w) = "get" /\ Step(w) /\ kq # <<>>)
            => Head(kq).len = SEQUENCE_LENGTH
       /\ (sequence' # sequence \/ counter' # counter)
            => /\ held'= held
               /\ \A i \in 1..Len(kq) : kq'[i].len = kq[i].len]_vars


\* C29: the command loop stays responsive during resynthesis: while
\* timbre_transfer of stop_recording_and_process is running, a command that
\* waits on gui_commands can be dequeued by the controller.
C29_ResponsiveDuringResynthesis ==
    (cpc = "timbre" /\ cmd_queue # <<>>) => ENABLED process_command


\* C30: track ids match file indices: once the variant files 0 .. N-1 are
\* written, the file of model i stands at position i of the sorted-by-name
\* order of the variant files, for every i.
C30_SortedOrderIsIndexOrder ==
    (files \ {REC}) # {}
    => \A i \in 0..(num_models - 1) :
          PyIndex(SortedNames(files \ {REC}), i) = i


\* the position of the controller inside ThreadManager.stop_thread(n), at
\* the join
JoinPc(n) == IF n = PCT THEN "join_pct" ELSE "join_am"

\* C31: stop_thread on a registered worker sets the worker's stop event
\* before it joins, returns only when the worker has ended, and on return the
\* name is in neither registry; after every step the thread registry and the
\* stop-event registry hold the same names.
C31_StopThreadDiscipline ==
    [][/\ \A n \in Names :
            /\ (cpc # JoinPc(n) /\ cpc' = JoinPc(n))
                 => (threads[n] # 0 /\ workers'[threads[n]].stop)
            /\ (cpc = JoinPc(n) /\ cpc' # JoinPc(n))
                 => (/\ threads[n] # 0
                     /\ workers[threads[n]].stop
                     /\ ~Alive(threads[n])
                     /\ threads'[n] = 0 /\ stop_events'[n] = 0)
       /\ {n \in Names : threads'[n] # 0} = {n \in Names : stop_events'[n] # 0}]_vars

\* C31 witness: stop_thread has returned for the classification worker, which
\* had been signalled and has ended
C31_Witness ==
    /\ cpc = "stop_am"
    /\ threads[PCT] = 0 /\ stop_events[PCT] = 0
    /\ \E w \in WIds : IsPose(w) /\ workers[w].stop /\ Pc(w) = "done"

\* C32: after clear() has returned, neither registry holds an entry for
\* pose_classification_thread or audio_morphing, also when the worker had
\* ended by itself before clear was called.
C32_ClearEmptiesRegistry ==
    [][ClearReturns
       => \A n \in Names : threads'[n] = 0 /\ stop_events'[n] = 0]_vars


\* C33: while no classification worker is alive the webcam puts no sequence
\* on keypoints_data: the queue grows only in a step taken while a
\* classification worker is alive.
C33_NoEmissionBetweenCycles ==
    [][Len(kq') > Len(kq) => \E w \in WIds : IsPose(w) /\ Alive(w)]_vars


\* C34: a call of close_app ends with no registered thread other than the
\* caller's alive, whether it runs on the controller thread or on the GUI
\* thread, also when the two calls overlap; and it never joins its own thread.
C34_CloseAppStopsAll ==
    [][\A c \in Closers :
          /\ (closer[c].pc \notin {"done", "KeyError"}
              /\ closer'[c].pc \in {"done", "KeyError"})
               => \A i \in 1..Len(AllNames) :
                    LET n == AllNames[i] IN
                    (n # Own(c) /\ Registered(n)')
                    => ~InstanceAlive(n, IF n \in Names THEN threads[n] ELSE 0)'
          /\ closer'[c].pc = "join" => closer'[c].name # Own(c)]_vars


\* the handler that process_command enters for a command
HandlerOf(c) ==
    CASE c = START_REC -> IF is_first_recording THEN "toggle_recording" ELSE "clear"
      [] c = STOP_REC -> "stop_recording"
      [] c = PLAY -> "play_audio"
      [] c = PAUSE -> "pause_audio"
      [] c = CLEAR -> "clear"
      [] OTHER -> "idle"

\* C35: the controller handles the commands one at a time in queue order: a
\* command leaves gui_commands only while no handler is running, it is the
\* oldest one, its handler is entered, and a handler is entered by nothing
\* else; the queue otherwise only grows at its tail.
C35_OneAtATimeInOrder ==
    [][/\ Len(cmd_queue') < Len(cmd_queue)
            => (/\ cpc = "idle"
                /\ cmd_queue' = Tail(cmd_queue)
                /\ cpc' = HandlerOf(Head(cmd_queue)))
       /\ Len(cmd_queue') >= Len(cmd_queue)
            => (/\ SubSeq(cmd_queue', 1, Len(cmd_queue)) = cmd_queue
                /\ Len(cmd_queue') <= Len(cmd_queue) + 1
                /\ cpc = "idle" => cpc' = "idle")]_vars

\* C35 witness: two commands wait on gui_commands while the compound handler
\* of Stop Rec is in its resynthesis step
C35_Witness ==
    /\ cpc = "timbre"
    /\ Len(cmd_queue) = 2


\* C36: play and pause leave the bank, every gain and sound_to_mute as they
\* are, and on an empty bank they change nothing at all; a SwitchCommand that
\* the engine takes while the mixer is paused is applied all the same: when
\* the engine is finished with it, its track has gain 1 and is sound_to_mute.
C36_PlayPauseFrame ==
    [][/\ (cpc \in {"play_audio", "pause_audio"} /\ cpc' # cpc)
            => (/\ UNCHANGED <<sounds, volume, playing, sound_to_mute>>
                /\ sounds = <<>> => mixer_paused' = mixer_paused)
       /\ \A w \in WIds :
            (mixer_paused /\ Finishes(w) /\ InRange(Handled(w)))
            => (/\ sound_to_mute' = new_sound_name(Handled(w))
                /\ volume'[new_sound_name(Handled(w))] = 1)]_vars


\* the position of the controller at which it sets the stop event of name n
SignalPc(n) == IF n = PCT THEN "stop_pct" ELSE "stop_am"

\* C37: start_thread gives every worker a fresh, unset stop event of its own:
\* a worker starts with its event unset and registered under its name, and
\* the event of a worker becomes set only by the stop of the name under which
\* that worker is registered.
C37_FreshStopEvent ==
    [][/\ nworkers' # nworkers
            => (/\ ~workers'[nworkers'].stop
                /\ \E n \in Names : /\ threads'[n] = nworkers'
                                    /\ stop_events'[n] = nworkers')
       /\ \A w \in WIds :
            (~workers[w].stop /\ workers'[w].stop)
            => \E n \in Names : /\ cpc = SignalPc(n)
                                /\ threads[n] = w /\ stop_events[n] = w
                                /\ \A v \in WIds \ {w} :
                                     workers'[v].stop = workers[v].stop]_vars

\* C37 witness: a classification worker runs with its stop event unset after
\* an earlier worker under the same name was stopped
C37_Witness ==
    \E v, w \in WIds :
        /\ v < w /\ IsPose(v) /\ IsPose(w)
        /\ workers[v].stop /\ ~Alive(v)
        /\ threads[PCT] = w /\ ~workers[w].stop /\ Pc(w) = "get"


\* the webcam processes a frame in this step
Frame == sequence' # sequence \/ counter' # counter \/ Len(kq') > Len(kq)

\* the webcam puts a sequence on keypoints_data in this step
Emits == Len(kq') > Len(kq)

QueueNames == {GUI_COMMANDS, KEYPOINTS_DATA, MORPHING_DATA}

\* C39: create_queue and create_event are idempotent per name. For a name
\* that exists they leave the registry, the contents of the queue and the
\* state of the event as they are; for a new name they register an empty
\* queue or an unset event; get_queue and get_event give None for a name that
\* was never created. In the program: create_queue("morphing_data") of a
\* later cycle keeps what the queue holds.
C39_CreateIdempotent ==
    [][/\ \A e \in DOMAIN events :
            /\ events[e] # "absent"
                 => (create_event(events, e) = events /\ get_event(events, e) = e)
            /\ events[e] = "absent"
                 => (/\ create_event(events, e) = [events EXCEPT ![e] = "unset"]
                     /\ get_event(events, e) = NONE)
       /\ \A q \in QueueNames :
            /\ q \in queues
                 => (create_queue(queues, q) = queues /\ get_queue(queues, q) = q)
            /\ q \notin queues
                 => (create_queue(queues, q) = queues \cup {q}
                     /\ get_queue(queues, q) = NONE)
       /\ (cpc = "pose_cls" /\ cpc' # cpc)
            => IF MORPHING_DATA \in queues
               THEN mq' = mq /\ queues' = queues
               ELSE mq' = <<>> /\ queues' = queues \cup {MORPHING_DATA}]_vars

\* C39 witness: the second cycle has called create_queue("morphing_data")
\* while the queue held a command
C39_Witness ==
    /\ cpc = "start_am"
    /\ nworkers >= 3
    /\ mq # <<>>
    /\ MORPHING_DATA \in queues


\* C40: set_event and clear_event on a name that was not created have no
\* lasting effect: the registry is as before, is_event_set is still False,
\* and a create_event that follows gives an unset event. In the program: a
\* set_event("start_extraction") of the controller that comes before the
\* webcam has created the event is lost.
C40_SetBeforeCreateIsLost ==
    [][/\ \A e \in DOMAIN events :
            events[e] = "absent"
            => (/\ set_event(events, e) = events
                /\ clear_event(events, e) = events
                /\ ~is_event_set(set_event(events, e), e)
                /\ create_event(set_event(events, e), e)[e] = "unset")
       /\ (cpc = "pose_cls" /\ cpc' # cpc /\ events["start_extraction"] = "absent")
            => events'["start_extraction"] = "absent"
       /\ (wc_pc = "init" /\ wc_pc' = "run" /\ events["start_extraction"] = "absent")
            => events'["start_extraction"] = "unset"]_vars

\* C40 witness: the webcam has created start_extraction after the controller
\* had set it, and the event is unset
C40_Witness ==
    /\ wc_pc = "run"
    /\ events["start_extraction"] = "unset"
    /\ events["start_pose_classification"] = "set"

====
